---- MODULE Spec2Model ----
(***************************************************************************)
(* Vehicle parking front desk: the record collection held by App           *)
(* (handleCheckin, handleCheckout, calculateCharge) and the check-in form  *)
(* of VehicleCheckin that feeds it.                                        *)
(*                                                                         *)
(* Strings are sequences of one-character strings, so that upper-casing,   *)
(* whitespace stripping and the plate pattern are computed, not assumed.   *)
(* Time is counted in ticks, TicksPerHour ticks to the hour; a duration in *)
(* hours is the rational ticks / TicksPerHour.                             *)
(***************************************************************************)
EXTENDS Integers, Sequences, FiniteSets, TLC

VARIABLES
    vehicles,   \* App: const [vehicles, setVehicles] = useState<Vehicle[]>([])
    now,        \* the system clock read by Date.now() / new Date()
    formData,   \* VehicleCheckin: const [formData, setFormData] = useState({...})
    pending,    \* handleSubmit calls suspended at `await fetch(...)`
    last,       \* the handler that ran last and what it returned
    calc,       \* the last evaluations of calculateCharge: <<[hours, charge], ...>>
    checkouts,  \* handleCheckout calls taken from a render and not yet run
    checked,    \* the last evaluation of a format validator
    view,       \* a list view: the fetched records, its filters and the list it shows
    ticket,     \* the last parking-ticket payload generated, and what the scanner read
    dash,       \* the data view that is mounted: its fetches and its loading flag
    scanner     \* QRScanner: its state, its refs, the camera and the interval timer

vars == <<vehicles, now, formData, pending, last, calc, checkouts, checked,
          view, ticket, dash, scanner>>

----------------------------------------------------------------------------
(* Bounds *)

TicksPerHour == 4      \* clock grid: a tick is a quarter of an hour
MaxRecords == 2        \* records held plus check-ins in flight
MaxGridHours == 50     \* durations handed to calculateCharge: 0 .. 50 h
MaxCheckouts == 2      \* handleCheckout calls taken from a render and not yet run

----------------------------------------------------------------------------
(* Strings *)

LowerCase == <<"a","b","c","d","e","f","g","h","i","j","k","l","m",
               "n","o","p","q","r","s","t","u","v","w","x","y","z">>
UpperCaseLetters == <<"A","B","C","D","E","F","G","H","I","J","K","L","M",
               "N","O","P","Q","R","S","T","U","V","W","X","Y","Z">>
Digits == {"0","1","2","3","4","5","6","7","8","9"}
Whitespace == {" ", "\t"}

IsUpperLetter(c) == \E i \in 1..26 : UpperCaseLetters[i] = c
IsDigit(c) == c \in Digits

\* String.prototype.toUpperCase on one character
toUpperChar(c) ==
    IF \E i \in 1..26 : LowerCase[i] = c
    THEN UpperCaseLetters[CHOOSE i \in 1..26 : LowerCase[i] = c]
    ELSE c

\* value.toUpperCase()
toUpperCase(s) == [i \in 1..Len(s) |-> toUpperChar(s[i])]

\* number.replace(/\s/g, '')
stripWhitespace(s) == SelectSeq(s, LAMBDA c : c \notin Whitespace)

----------------------------------------------------------------------------
(* Format validators (VehicleCheckin) *)

\* a run of the pattern: the characters lo..hi of s are all of one class
AllUpperLetters(s, lo, hi) == \A i \in lo..hi : IsUpperLetter(s[i])
AllDigits(s, lo, hi) == \A i \in lo..hi : IsDigit(s[i])

\* /^[A-Z]{2}\d{1,2}[A-Z]{1,2}\d{3,4}$/.test(cleanNumber)
platePattern(s) ==
    \E a \in 1..2, b \in 1..2, c \in 3..4 :
        /\ Len(s) = 2 + a + b + c
        /\ AllUpperLetters(s, 1, 2)
        /\ AllDigits(s, 3, 2 + a)
        /\ AllUpperLetters(s, 3 + a, 2 + a + b)
        /\ AllDigits(s, 3 + a + b, 2 + a + b + c)

validateVehicleNumber(number) == platePattern(stripWhitespace(number))

\* QRScanner's own validateVehicleNumber: the same strip and the same pattern
scannerValidateVehicleNumber(number) == platePattern(stripWhitespace(number))

\* mutant: any leading digit, /^\d{10}$/
validatePhoneNumberAnyFirst(phone) ==
    /\ Len(phone) = 10
    /\ AllDigits(phone, 1, 10)

\* /^[6-9]\d{9}$/.test(phone)
validatePhoneNumber(phone) ==
    /\ Len(phone) = 10
    /\ phone[1] \in {"6", "7", "8", "9"}
    /\ AllDigits(phone, 2, 10)

----------------------------------------------------------------------------
(* Charge calculator (App) *)

\* Math.ceil(a / b) for b > 0
Ceil(a, b) == -((-a) \div b)

\* mutant: the 12-hour boundary taken as exclusive (hours < 12)
calculateChargeStrict(ticks) ==
    IF ticks < 12 * TicksPerHour
    THEN 10
    ELSE Ceil(ticks, 24 * TicksPerHour) * 20

\* mutant: Math.floor in place of Math.ceil
calculateChargeFloor(ticks) ==
    IF ticks <= 12 * TicksPerHour
    THEN 10
    ELSE (ticks \div (24 * TicksPerHour)) * 20

\* calculateCharge(hours), hours = ticks / TicksPerHour
calculateCharge(ticks) ==
    IF ticks <= 12 * TicksPerHour
    THEN 10
    ELSE Ceil(ticks, 24 * TicksPerHour) * 20

\* mutant: the flat tier up to 12 hours is dropped
detailsCalculateChargeNoFlatTier(ticks) == Ceil(ticks, 24 * TicksPerHour) * 20

\* ActiveVehiclesDetails' own calculateCharge(hours)
detailsCalculateCharge(ticks) ==
    IF ticks <= 12 * TicksPerHour
    THEN 10
    ELSE Ceil(ticks, 24 * TicksPerHour) * 20

\* ActiveVehicles.getCurrentCharge: the calculateCharge prop is App's, on
\* (now - checkInTime) / (1000 * 60 * 60)
getCurrentCharge(checkInTime, t) == calculateCharge(t - checkInTime)

\* ActiveVehiclesDetails.getCurrentCharge, on (currentTime - checkIn) / (1000 * 60 * 60)
detailsGetCurrentCharge(checkInTime, currentTime) ==
    detailsCalculateCharge(currentTime - checkInTime)

----------------------------------------------------------------------------
(* Record collection (App) *)

\* mutant: the lookup forgets the status, so a Completed record blocks a check-in
existingVehicleAnyStatus(vs, vehicle) ==
    \E i \in 1..Len(vs) : vs[i].vehicleNumber = vehicle.vehicleNumber

\* vehicles.find(v => v.vehicleNumber === vehicle.vehicleNumber && v.status === 'active')
existingActiveVehicle(vs, vehicle) ==
    \E i \in 1..Len(vs) :
        /\ vs[i].vehicleNumber = vehicle.vehicleNumber
        /\ vs[i].status = "active"

\* { ...vehicle, id: Date.now().toString(), checkInTime: new Date(), status: 'active' }
\* Date.now().toString() is one-to-one on clock readings: the id is kept as the reading.
newVehicle(vehicle, t) ==
    [ vehicleNumber |-> vehicle.vehicleNumber,
      vehicleType   |-> vehicle.vehicleType,
      ownerName     |-> vehicle.ownerName,
      phoneNumber   |-> vehicle.phoneNumber,
      id            |-> t,
      checkInTime   |-> t,
      status        |-> "active" ]

\* the value handleCheckin returns when run against the collection vs
handleCheckinReturn(vs, vehicle) == ~existingActiveVehicle(vs, vehicle)

\* the collection after handleCheckin: setVehicles([...vehicles, newVehicle]) writes
\* the collection the handler closed over (vs) plus the new record; on the
\* already-active path setVehicles is not called and the current one (cur) stays
handleCheckinVehicles(vs, vehicle, t, cur) ==
    IF existingActiveVehicle(vs, vehicle)
    THEN cur
    ELSE Append(vs, newVehicle(vehicle, t))

\* mutant: the check-out writes checkOutTime, duration and status but no charge
checkoutVehicleNoCharge(vehicle, vehicleId, t) ==
    IF vehicle.id = vehicleId /\ vehicle.status = "active"
    THEN [ vehicleNumber |-> vehicle.vehicleNumber,
           vehicleType   |-> vehicle.vehicleType,
           ownerName     |-> vehicle.ownerName,
           phoneNumber   |-> vehicle.phoneNumber,
           id            |-> vehicle.id,
           checkInTime   |-> vehicle.checkInTime,
           checkOutTime  |-> t,
           duration      |-> t - vehicle.checkInTime,
           status        |-> "completed" ]
    ELSE vehicle

\* mutant: the duration is taken with its operands swapped
checkoutVehicleSwapped(vehicle, vehicleId, t) ==
    IF vehicle.id = vehicleId /\ vehicle.status = "active"
    THEN [ vehicleNumber |-> vehicle.vehicleNumber,
           vehicleType   |-> vehicle.vehicleType,
           ownerName     |-> vehicle.ownerName,
           phoneNumber   |-> vehicle.phoneNumber,
           id            |-> vehicle.id,
           checkInTime   |-> vehicle.checkInTime,
           checkOutTime  |-> t,
           duration      |-> vehicle.checkInTime - t,
           charge        |-> calculateCharge(vehicle.checkInTime - t),
           status        |-> "completed" ]
    ELSE vehicle

\* mutant: the check-out is dated as far before the check-in as the clock is after it
checkoutVehicleBackdated(vehicle, vehicleId, t) ==
    IF vehicle.id = vehicleId /\ vehicle.status = "active"
    THEN [ vehicleNumber |-> vehicle.vehicleNumber,
           vehicleType   |-> vehicle.vehicleType,
           ownerName     |-> vehicle.ownerName,
           phoneNumber   |-> vehicle.phoneNumber,
           id            |-> vehicle.id,
           checkInTime   |-> vehicle.checkInTime,
           checkOutTime  |-> vehicle.checkInTime - (t - vehicle.checkInTime),
           duration      |-> vehicle.checkInTime - t,
           charge        |-> calculateCharge(t - vehicle.checkInTime),
           status        |-> "completed" ]
    ELSE vehicle

\* the callback of vehicles.map in handleCheckout
checkoutVehicle(vehicle, vehicleId, t) ==
    IF vehicle.id = vehicleId /\ vehicle.status = "active"
    THEN [ vehicleNumber |-> vehicle.vehicleNumber,
           vehicleType   |-> vehicle.vehicleType,
           ownerName     |-> vehicle.ownerName,
           phoneNumber   |-> vehicle.phoneNumber,
           id            |-> vehicle.id,
           checkInTime   |-> vehicle.checkInTime,
           checkOutTime  |-> t,
           duration      |-> t - vehicle.checkInTime,
           charge        |-> calculateCharge(t - vehicle.checkInTime),
           status        |-> "completed" ]
    ELSE vehicle

----------------------------------------------------------------------------
(* Inputs *)

EmptyString == << >>

\* what the operator types into the vehicle-number field, or the camera captures
TypedPlates ==
    { <<"m","h","1","2","a","b","1","2","3","4">>,
      <<"M","H"," ","1","2"," ","A","B"," ","1","2","3","4">>,
      <<"M","H","1","2","3","4">> }
ScannedPlates == { <<"M","H","1","2","A","B","1","2","3","4">> }
TypedPhones == { <<"9","8","7","6","5","4","3","2","1","0">> }
VehicleTypes == { "Car" }          \* <SelectItem value=...>
TypedNames == { <<"A","s","h","a">> }

\* field contents of the form on its own: the fields are edited one at a time
FormPlates == TypedPlates \cup {EmptyString}
FormPhones ==
    TypedPhones \cup { EmptyString,
                       <<"1","2","3","4","5","6","7","8","9","0">>,
                       <<"9","8","7","6","5","-","4","3","2","1">> }
FormTypes == VehicleTypes \cup {"Bike"}
FormNames == TypedNames \cup {EmptyString}

\* arguments for the validators called directly: a plate is four runs laid end to
\* end, a phone number a first character and a body of 8 to 10 characters
PlateLead == { <<"M">>, <<"M","H">>, <<"M","H"," ">>, <<"m","h"," ">> }
PlateDistrict == { << >>, <<"1">>, <<"1","2">>, <<"1","2","3">> }
PlateSeries == { << >>, <<"A">>, <<" ","A","B"," ">>, <<" ","a","b"," ">>, <<"A","B","C">> }
PlateSerial == { <<"1","2">>, <<"1","2","3">>, <<"1","2","3","4">>,
                 <<"1","2","3","4","5">> }
PlateInputs ==
    { a \o b \o c \o d : a \in PlateLead, b \in PlateDistrict,
                          c \in PlateSeries, d \in PlateSerial }
        \cup ScannedPlates \cup {EmptyString}

PhoneFirst == {"1", "5", "6", "7", "9", "x"}
PhoneBody ==
    UNION { { [i \in 1..n |-> "0"],
              [i \in 1..n |-> IF i = 1 THEN "-" ELSE "3"],
              [i \in 1..n |-> IF i = n THEN "x" ELSE "8"],
              [i \in 1..n |-> IF i = 4 THEN " " ELSE "5"] } : n \in 8..10 }
        \cup { <<"8","7","6","5","4","3","2","1","0">>,
               <<"2","3","4","5","6","7","8","9","0">> }
PhoneInputs == { <<f>> \o body : f \in PhoneFirst, body \in PhoneBody } \cup {EmptyString}

ClockHours == {5, 17, 30}          \* the clock readings events happen at, after 0
NoSuchId == 0 - 1                     \* an id no record carries

BlankForm ==
    [ vehicleNumber |-> EmptyString, vehicleType |-> "",
      ownerName |-> EmptyString, phoneNumber |-> EmptyString ]

(* The data views: what each fetches when it mounts *)

\* v.field || 0 and v.field ? v.field : 0, for an optional number
orZero(v, field) == IF field \in DOMAIN v THEN v[field] ELSE 0

DataViews == {"Dashboard", "ActiveVehiclesDetails", "CheckInTodayDetails",
              "CheckOutTodayDetails"}

\* the fetch functions the mount effect of a view starts
fetchesOf(component) ==
    CASE component = "Dashboard" ->
             {"fetchToday", "fetchActive", "fetchCompletedToday", "fetchTotalRevenue"}
      [] component = "ActiveVehiclesDetails" -> {"fetchActiveVehicles"}
      [] component = "CheckInTodayDetails" -> {"fetchTodayVehicles"}
      [] component = "CheckOutTodayDetails" -> {"fetchCompletedToday"}

\* mutant: the sum starts from the second record
todayRevenueFromSecond(completedToday) ==
    LET reduce[i \in 0..Len(completedToday)] ==
            IF i <= 1 THEN 0 ELSE reduce[i - 1] + orZero(completedToday[i], "charge")
    IN reduce[Len(completedToday)]

\* completedToday.reduce((sum, v) => sum + (v.charge || 0), 0)
todayRevenue(completedToday) ==
    LET reduce[i \in 0..Len(completedToday)] ==
            IF i = 0 THEN 0 ELSE reduce[i - 1] + orZero(completedToday[i], "charge")
    IN reduce[Len(completedToday)]

\* the state of a view after its first render and its mount effect: the useState
\* defaults, every fetch in flight; Dashboard's loadAll is suspended at its await
mounted(component) ==
    IF component = "Dashboard"
    THEN [ component |-> component, loading |-> TRUE,
           fetches |-> [f \in fetchesOf(component) |-> "pending"],
           loadAll |-> "awaiting",
           todayVehicles |-> << >>, activeVehicles |-> << >>,
           completedToday |-> << >>, totalRevenue |-> 0,
           todayRevenue |-> todayRevenue(<< >>) ]
    ELSE [ component |-> component, loading |-> TRUE,
           fetches |-> [f \in fetchesOf(component) |-> "pending"],
           vehicles |-> << >> ]

(* QRScanner: the state after the first render *)

NoStream == 0          \* useState<MediaStream | null>(null); streams are 1, 2, ...

\* useState and useRef defaults. tracks: the streams whose camera tracks are live;
\* timers: the intervals that are running, each with the `stream` its scanQRCode
\* closure sees; ref: scanIntervalRef.current is set; cleanup: the `stream` the
\* registered effect cleanup sees; requests: the getUserMedia calls in flight, each
\* with the `stream` of the render that made it; onloadedmetadata: the handler on
\* the video element whose event is still to come, by the `stream` of its
\* closure, or Unset.
Unset == 0 - 1

initialScanner ==
    [ isOpen |-> FALSE, stream |-> NoStream, cameraError |-> FALSE,
      isScanning |-> FALSE, manualEntry |-> FALSE, vehicleNumber |-> << >>,
      error |-> "", ref |-> FALSE, timers |-> << >>, tracks |-> {},
      cleanup |-> NoStream, requests |-> << >>, onloadedmetadata |-> Unset,
      started |-> 0, onScan |-> << >>, toast |-> "", firedClosed |-> FALSE ]

----------------------------------------------------------------------------
(* State machine *)

Init ==
    /\ vehicles = << >>
    /\ now = 0
    /\ formData = BlankForm
    /\ pending = << >>
    /\ last = [op |-> "init", value |-> "undefined"]
    /\ calc = << >>
    /\ checkouts = << >>
    /\ checked = [fn |-> "none"]
    /\ view = [component |-> "none"]
    /\ ticket = [generator |-> "none"]
    /\ dash = mounted("Dashboard")
    /\ scanner = initialScanner

RemoveAt(s, i) == [j \in 1..(Len(s) - 1) |-> IF j < i THEN s[j] ELSE s[j + 1]]

(* VehicleCheckin: field handlers, each as the formData it sets *)

\* setFormData({ ...formData, vehicleNumber: value.toUpperCase() })
handleVehicleNumberChange(fd, value) == [fd EXCEPT !.vehicleNumber = toUpperCase(value)]

\* (value || '').replace(/\D/g, '')
digitsOnly(value) == SelectSeq(value, IsDigit)

handlePhoneNumberChange(fd, value) == [fd EXCEPT !.phoneNumber = digitsOnly(value)]

onVehicleTypeChange(fd, value) == [fd EXCEPT !.vehicleType = value]

onOwnerNameChange(fd, value) == [fd EXCEPT !.ownerName = value]

\* setFormData({ ...formData, vehicleNumber: scannedNumber }): no upper-casing
handleCameraCapture(fd, scannedNumber) == [fd EXCEPT !.vehicleNumber = scannedNumber]

\* The operator fills the form: the four field handlers run one after the other.
\* They touch formData alone and only handleSubmit reads it, so the four events
\* are taken as one step.
fillOtherFields(fd, type, name, phone) ==
    handlePhoneNumberChange(onOwnerNameChange(onVehicleTypeChange(fd, type), name), phone)

typeForm(value, type, name, phone) ==
    /\ formData' = fillOtherFields(handleVehicleNumberChange(formData, value), type, name, phone)
    /\ last' = [op |-> "edit", value |-> "undefined"]
    /\ UNCHANGED <<vehicles, now, pending, calc, checkouts, checked,
                   view, ticket, dash, scanner>>

scanForm(scannedNumber, type, name, phone) ==
    /\ formData' = fillOtherFields(handleCameraCapture(formData, scannedNumber), type, name, phone)
    /\ last' = [op |-> "edit", value |-> "undefined"]
    /\ UNCHANGED <<vehicles, now, pending, calc, checkouts, checked,
                   view, ticket, dash, scanner>>

(* VehicleCheckin.handleSubmit, up to `await fetch(...)` *)

formIncomplete(fd) ==
    \/ fd.vehicleNumber = EmptyString
    \/ fd.vehicleType = ""
    \/ fd.ownerName = EmptyString
    \/ fd.phoneNumber = EmptyString

\* mutant: the phone number is not validated
submitRejectionNoPhone(fd) ==
    IF formIncomplete(fd) THEN "Please fill all fields"
    ELSE IF ~validateVehicleNumber(fd.vehicleNumber) THEN "Invalid vehicle number format"
    ELSE ""

\* the message of the toast handleSubmit returns with, "" when it goes on to fetch
submitRejection(fd) ==
    IF formIncomplete(fd) THEN "Please fill all fields"
    ELSE IF ~validateVehicleNumber(fd.vehicleNumber) THEN "Invalid vehicle number format"
    ELSE IF ~validatePhoneNumber(fd.phoneNumber) THEN "Invalid phone number"
    ELSE ""

handleSubmitRejected ==
    /\ submitRejection(formData) # ""
    /\ last' = [op |-> "handleSubmit", value |-> submitRejection(formData)]
    /\ UNCHANGED <<vehicles, now, formData, pending, calc, checkouts, checked,
                   view, ticket, dash, scanner>>

\* The suspended call keeps the formData and the onCheckin of the render it was
\* started from; onCheckin is App's handleCheckin, closed over that render's vehicles.
handleSubmitFetch ==
    /\ submitRejection(formData) = ""
    /\ Len(vehicles) + Len(pending) < MaxRecords
    /\ pending' = Append(pending, [formData |-> formData, vehicles |-> vehicles])
    /\ last' = [op |-> "handleSubmit", value |-> "fetch"]
    /\ UNCHANGED <<vehicles, now, formData, calc, checkouts, checked,
                   view, ticket, dash, scanner>>

(* VehicleCheckin.handleSubmit, after the await *)

\* !response.ok: toast.error(...); return
fetchNotOk(i) ==
    /\ i \in 1..Len(pending)
    /\ pending' = RemoveAt(pending, i)
    /\ last' = [op |-> "handleSubmit", value |-> "Vehicle check-in failed"]
    /\ UNCHANGED <<vehicles, now, formData, calc, checkouts, checked,
                   view, ticket, dash, scanner>>

\* fetch or response.json() throws: the catch block
fetchThrows(i) ==
    /\ i \in 1..Len(pending)
    /\ pending' = RemoveAt(pending, i)
    /\ last' = [op |-> "handleSubmit", value |-> "Server error: Unable to save vehicle"]
    /\ UNCHANGED <<vehicles, now, formData, calc, checkouts, checked,
                   view, ticket, dash, scanner>>

\* response.ok: onCheckin(formData), i.e. App.handleCheckin, then the form is reset
fetchOk(i) ==
    /\ i \in 1..Len(pending)
    /\ LET p == pending[i]
           ok == handleCheckinReturn(p.vehicles, p.formData)
       IN /\ vehicles' = handleCheckinVehicles(p.vehicles, p.formData, now, vehicles)
          /\ formData' = IF ok THEN BlankForm ELSE formData
          /\ last' = [op |-> "handleCheckin", value |-> ok]
    /\ pending' = RemoveAt(pending, i)
    /\ UNCHANGED <<now, calc, checkouts, checked,
                   view, ticket, dash, scanner>>

(* App.handleCheckout *)

\* what the id named before the call: an Active record, a Completed one, or none
targetOf(vs, vehicleId) ==
    IF \E i \in 1..Len(vs) : vs[i].id = vehicleId /\ vs[i].status = "active"
    THEN "active"
    ELSE IF \E i \in 1..Len(vs) : vs[i].id = vehicleId
    THEN "completed"
    ELSE "absent"

\* handleCheckout has no return statement: every call evaluates to undefined
handleCheckoutReturn(vs, vehicleId) == "undefined"

handleCheckout(vehicleId) ==
    /\ vehicles' = [i \in 1..Len(vehicles) |-> checkoutVehicle(vehicles[i], vehicleId, now)]
    /\ last' = [op |-> "handleCheckout",
                value |-> handleCheckoutReturn(vehicles, vehicleId)]
    /\ UNCHANGED <<now, formData, pending, calc, checkouts, checked,
                   view, ticket, dash, scanner>>

(* The clock *)

Advance(h) ==
    /\ now < h * TicksPerHour
    /\ now' = h * TicksPerHour
    /\ UNCHANGED <<vehicles, formData, pending, last, calc, checkouts, checked,
                   view, ticket, dash, scanner>>

Ids(vs) == {vs[i].id : i \in 1..Len(vs)}

Next ==
    \/ \E value \in TypedPlates, type \in VehicleTypes, name \in TypedNames,
          phone \in TypedPhones : typeForm(value, type, name, phone)
    \/ \E scannedNumber \in ScannedPlates, type \in VehicleTypes, name \in TypedNames,
          phone \in TypedPhones : scanForm(scannedNumber, type, name, phone)
    \/ handleSubmitRejected
    \/ handleSubmitFetch
    \/ \E i \in 1..Len(pending) : fetchNotOk(i)
    \/ \E i \in 1..Len(pending) : fetchThrows(i)
    \/ \E i \in 1..Len(pending) : fetchOk(i)
    \/ \E vehicleId \in Ids(vehicles) \cup {NoSuchId} : handleCheckout(vehicleId)
    \/ \E h \in ClockHours : Advance(h)

Spec == Init /\ [][Next]_vars

----------------------------------------------------------------------------
(* The charge calculator on its own: every duration of the grid *)

GridTicks == 0..(MaxGridHours * TicksPerHour)

\* one evaluation; calc keeps the two most recent ones
Calculate(ticks) ==
    /\ calc' = (IF Len(calc) = 2 THEN Tail(calc) ELSE calc)
                  \o << [hours |-> ticks, charge |-> calculateCharge(ticks)] >>
    /\ UNCHANGED <<vehicles, now, formData, pending, last, checkouts, checked,
                   view, ticket, dash, scanner>>

NextCharge == \E ticks \in GridTicks : Calculate(ticks)

SpecCharge == Init /\ [][NextCharge]_vars

----------------------------------------------------------------------------
(* Check-outs issued before an earlier one is visible *)

\* handleCheckout passes setVehicles a value computed from the vehicles of the render
\* it was created in, not an updater: a call issued before the re-render that follows
\* an earlier call still maps over the old collection.
captureCheckout(vehicleId) ==
    /\ Len(checkouts) < MaxCheckouts
    /\ checkouts' = Append(checkouts, [vehicleId |-> vehicleId, vehicles |-> vehicles])
    /\ UNCHANGED <<vehicles, now, formData, pending, last, calc, checked,
                   view, ticket, dash, scanner>>

runCheckout(k) ==
    /\ k \in 1..Len(checkouts)
    /\ LET c == checkouts[k]
       IN /\ vehicles' = [i \in 1..Len(c.vehicles) |->
                            checkoutVehicle(c.vehicles[i], c.vehicleId, now)]
          /\ last' = [op |-> "handleCheckout",
                      value |-> handleCheckoutReturn(c.vehicles, c.vehicleId)]
    /\ checkouts' = RemoveAt(checkouts, k)
    /\ UNCHANGED <<now, formData, pending, calc, checked,
                   view, ticket, dash, scanner>>

NextCheckout ==
    \/ \E scannedNumber \in ScannedPlates, type \in VehicleTypes, name \in TypedNames,
          phone \in TypedPhones : scanForm(scannedNumber, type, name, phone)
    \/ handleSubmitFetch
    \/ \E i \in 1..Len(pending) : fetchOk(i)
    \/ \E vehicleId \in Ids(vehicles) : captureCheckout(vehicleId)
    \/ \E k \in 1..Len(checkouts) : runCheckout(k)
    \/ \E h \in ClockHours : Advance(h)

SpecCheckout == Init /\ [][NextCheckout]_vars

----------------------------------------------------------------------------
(* The check-in form on its own: one field event per step *)

onChangeVehicleNumber(value) ==
    /\ formData' = handleVehicleNumberChange(formData, value)
    /\ last' = [op |-> "edit", value |-> "undefined"]
    /\ UNCHANGED <<vehicles, now, pending, calc, checkouts, checked,
                   view, ticket, dash, scanner>>

onCameraCapture(scannedNumber) ==
    /\ formData' = handleCameraCapture(formData, scannedNumber)
    /\ last' = [op |-> "edit", value |-> "undefined"]
    /\ UNCHANGED <<vehicles, now, pending, calc, checkouts, checked,
                   view, ticket, dash, scanner>>

onValueChangeVehicleType(value) ==
    /\ formData' = onVehicleTypeChange(formData, value)
    /\ last' = [op |-> "edit", value |-> "undefined"]
    /\ UNCHANGED <<vehicles, now, pending, calc, checkouts, checked,
                   view, ticket, dash, scanner>>

onChangeOwnerName(value) ==
    /\ formData' = onOwnerNameChange(formData, value)
    /\ last' = [op |-> "edit", value |-> "undefined"]
    /\ UNCHANGED <<vehicles, now, pending, calc, checkouts, checked,
                   view, ticket, dash, scanner>>

onChangePhoneNumber(value) ==
    /\ formData' = handlePhoneNumberChange(formData, value)
    /\ last' = [op |-> "edit", value |-> "undefined"]
    /\ UNCHANGED <<vehicles, now, pending, calc, checkouts, checked,
                   view, ticket, dash, scanner>>

NextForm ==
    \/ \E value \in FormPlates : onChangeVehicleNumber(value)
    \/ \E scannedNumber \in ScannedPlates : onCameraCapture(scannedNumber)
    \/ \E value \in FormTypes : onValueChangeVehicleType(value)
    \/ \E value \in FormNames : onChangeOwnerName(value)
    \/ \E value \in FormPhones : onChangePhoneNumber(value)
    \/ handleSubmitRejected
    \/ handleSubmitFetch
    \/ \E i \in 1..Len(pending) : fetchNotOk(i)
    \/ \E i \in 1..Len(pending) : fetchThrows(i)
    \/ \E i \in 1..Len(pending) : fetchOk(i)

SpecForm == Init /\ [][NextForm]_vars

----------------------------------------------------------------------------
(* The validators on their own: one call per step, checked keeps the last call *)

callValidateVehicleNumber(number) ==
    /\ checked' = [fn |-> "validateVehicleNumber", input |-> number,
                   result |-> validateVehicleNumber(number)]
    /\ UNCHANGED <<vehicles, now, formData, pending, last, calc, checkouts,
                   view, ticket, dash, scanner>>

callScannerValidateVehicleNumber(number) ==
    /\ checked' = [fn |-> "QRScanner.validateVehicleNumber", input |-> number,
                   result |-> scannerValidateVehicleNumber(number)]
    /\ UNCHANGED <<vehicles, now, formData, pending, last, calc, checkouts,
                   view, ticket, dash, scanner>>

callValidatePhoneNumber(phone) ==
    /\ checked' = [fn |-> "validatePhoneNumber", input |-> phone,
                   result |-> validatePhoneNumber(phone)]
    /\ UNCHANGED <<vehicles, now, formData, pending, last, calc, checkouts,
                   view, ticket, dash, scanner>>

NextValidate ==
    \/ \E number \in PlateInputs : callValidateVehicleNumber(number)
    \/ \E number \in PlateInputs : callScannerValidateVehicleNumber(number)
    \/ \E phone \in PhoneInputs : callValidatePhoneNumber(phone)

SpecValidate == Init /\ [][NextValidate]_vars

----------------------------------------------------------------------------
(* The live estimates beside the check-out, for one vehicle and one clock reading *)

EstimateCheckIns == {0, 1} \cup {h * TicksPerHour : h \in ClockHours}

\* a vehicle checked in at checkInTime is shown in both lists at time t and is
\* checked out at that same reading
Estimate(vehicle, checkInTime, t) ==
    /\ checkInTime <= t
    /\ LET record == newVehicle(vehicle, checkInTime)
           done == checkoutVehicle(record, record.id, t)
       IN calc' = << [ checkInTime |-> record.checkInTime,
                       hours |-> done.duration,
                       charge |-> done.charge,
                       estimate |-> getCurrentCharge(record.checkInTime, t),
                       detailsEstimate |-> detailsGetCurrentCharge(record.checkInTime, t),
                       detailsCharge |-> detailsCalculateCharge(t - checkInTime) ] >>
    /\ UNCHANGED <<vehicles, now, formData, pending, last, checkouts, checked,
                   view, ticket, dash, scanner>>

NextEstimate ==
    \E scannedNumber \in ScannedPlates, type \in VehicleTypes, name \in TypedNames,
       phone \in TypedPhones, checkInTime \in EstimateCheckIns, t \in GridTicks :
        Estimate(fillOtherFields(handleCameraCapture(BlankForm, scannedNumber),
                                 type, name, phone), checkInTime, t)

SpecEstimate == Init /\ [][NextEstimate]_vars

----------------------------------------------------------------------------
(* List views (ParkingHistory, ActiveVehiclesDetails, CheckInTodayDetails,
   CheckOutTodayDetails): arrays, filters and Array.prototype.sort *)

\* String.prototype.toLowerCase
toLowerChar(c) ==
    IF \E i \in 1..26 : UpperCaseLetters[i] = c
    THEN LowerCase[CHOOSE i \in 1..26 : UpperCaseLetters[i] = c]
    ELSE c

toLowerCase(s) == [i \in 1..Len(s) |-> toLowerChar(s[i])]

\* String.prototype.includes
includes(s, q) == \E i \in 0..(Len(s) - Len(q)) : SubSeq(s, i + 1, i + Len(q)) = q

\* String.prototype.trim
RECURSIVE trimStart(_)
trimStart(s) == IF s # << >> /\ Head(s) \in Whitespace THEN trimStart(Tail(s)) ELSE s

RECURSIVE trimEnd(_)
trimEnd(s) ==
    IF s # << >> /\ s[Len(s)] \in Whitespace THEN trimEnd(SubSeq(s, 1, Len(s) - 1)) ELSE s

trim(s) == trimEnd(trimStart(s))

\* String.prototype.localeCompare on plates: the collation puts the space before the
\* digits and the digits before the letters
CollationOrder ==
    <<" ", "0","1","2","3","4","5","6","7","8","9">> \o UpperCaseLetters

collationRank(c) ==
    IF \E i \in 1..Len(CollationOrder) : CollationOrder[i] = c
    THEN CHOOSE i \in 1..Len(CollationOrder) : CollationOrder[i] = c
    ELSE 0

RECURSIVE localeCompare(_, _)
localeCompare(a, b) ==
    IF a = << >> /\ b = << >> THEN 0
    ELSE IF a = << >> THEN 0 - 1
    ELSE IF b = << >> THEN 1
    ELSE IF collationRank(Head(a)) < collationRank(Head(b)) THEN 0 - 1
    ELSE IF collationRank(Head(a)) > collationRank(Head(b)) THEN 1
    ELSE localeCompare(Tail(a), Tail(b))

\* the comparefn handed to sort, by the view's sort key:
\*   charge          (b.charge || 0) - (a.charge || 0)
\*   duration        (b.duration || 0) - (a.duration || 0)
\*   checkOutOrZero  tB - tA, a missing checkOutTime counting as 0     (ParkingHistory)
\*   checkOutIfBoth  0 when either checkOutTime is missing, else tB - tA (CheckOutToday)
\*   liveDuration    durationB - durationA, duration = currentTime - checkInTime
\*   vehicle         a.vehicleNumber.localeCompare(b.vehicleNumber)
\*   checkIn         b.checkInTime - a.checkInTime
comparefn(key, a, b, currentTime) ==
    CASE key = "charge" -> orZero(b, "charge") - orZero(a, "charge")
      [] key = "duration" -> orZero(b, "duration") - orZero(a, "duration")
      [] key = "checkOutOrZero" -> orZero(b, "checkOutTime") - orZero(a, "checkOutTime")
      [] key = "checkOutIfBoth" ->
            IF "checkOutTime" \notin DOMAIN a \/ "checkOutTime" \notin DOMAIN b
            THEN 0
            ELSE b.checkOutTime - a.checkOutTime
      [] key = "liveDuration" ->
            (currentTime - b.checkInTime) - (currentTime - a.checkInTime)
      [] key = "vehicle" -> localeCompare(a.vehicleNumber, b.vehicleNumber)
      [] key = "checkIn" -> b.checkInTime - a.checkInTime

\* the pairs of positions of the array on which comparefn is negative, and zero
negativePairs(arr, key, currentTime) ==
    {p \in (1..Len(arr)) \X (1..Len(arr)) : comparefn(key, arr[p[1]], arr[p[2]], currentTime) < 0}

zeroPairs(arr, key, currentTime) ==
    {p \in (1..Len(arr)) \X (1..Len(arr)) : comparefn(key, arr[p[1]], arr[p[2]], currentTime) = 0}

\* ECMAScript: comparefn is a consistent comparator for the values of the array
\* (a <CF b is lt, a =CF b is eq, a >CF b is gt)
consistentComparator(n, lt, eq) ==
    \E gt \in {((1..n) \X (1..n)) \ (lt \cup eq)} :
       /\ \A a \in 1..n : <<a, a>> \in eq
       /\ \A p \in eq : <<p[2], p[1]>> \in eq
       /\ \A p \in lt : <<p[2], p[1]>> \in gt
       /\ \A p \in gt : <<p[2], p[1]>> \in lt
       /\ \A p, q \in eq : p[2] = q[1] => <<p[1], q[2]>> \in eq
       /\ \A p, q \in lt : p[2] = q[1] => <<p[1], q[2]>> \in lt
       /\ \A p, q \in gt : p[2] = q[1] => <<p[1], q[2]>> \in gt

\* The arrays a sort can leave behind, given the signs of comparefn. With a
\* consistent comparator the sort is stable and the result is one; otherwise the
\* order is implementation-defined and any permutation can result.
sortedBy(arr, lt, eq) ==
    LET n == Len(arr)
        stable(p) == \A k, l \in 1..n :
                        k < l => \/ <<p[k], p[l]>> \in lt
                                 \/ <<p[k], p[l]>> \in eq /\ p[k] < p[l]
    IN IF consistentComparator(n, lt, eq)
       THEN {[k \in 1..n |-> arr[p[k]]] : p \in {q \in Permutations(1..n) : stable(q)}}
       ELSE {[k \in 1..n |-> arr[p[k]]] : p \in Permutations(1..n)}

\* Array.prototype.sort(comparefn); the array and the signs are evaluated once
sortOutcomes(arr, key, currentTime) ==
    UNION { UNION { UNION { sortedBy(a, lt, eq) :
                              eq \in {zeroPairs(a, key, currentTime)} } :
                      lt \in {negativePairs(a, key, currentTime)} } :
              a \in {arr} }

\* A computation over arrays: the state array `vehicles`, the array `cur` the local
\* variable points to, and whether the two are one object (a sort in place of an
\* alias would change the state array).
aliasOf(vs) == [vehicles |-> vs, cur |-> vs, alias |-> TRUE]        \* let filtered = vehicles
spreadCopy(c) == [c EXCEPT !.alias = FALSE]                          \* [...filtered]
newArray(c, arr) == [c EXCEPT !.cur = arr, !.alias = FALSE]          \* filter returns a new array

\* list.sort(comparefn): in place, on the array cur points to
sortInPlace(c, key, currentTime) ==
    { [vehicles |-> IF c.alias THEN o ELSE c.vehicles, cur |-> o, alias |-> c.alias] :
        o \in sortOutcomes(c.cur, key, currentTime) }

\* the search predicates: ParkingHistory lower-cases the phone number too
historyMatches(v, q) ==
    \/ includes(toLowerCase(v.vehicleNumber), q)
    \/ includes(toLowerCase(v.ownerName), q)
    \/ includes(toLowerCase(v.phoneNumber), q)

listMatches(v, query) ==
    \/ includes(toLowerCase(v.vehicleNumber), query)
    \/ includes(toLowerCase(v.ownerName), query)
    \/ includes(v.phoneNumber, query)

NoDate == 0 - 1                                       \* an unset date filter
startOfDay(day) == day * 24 * TicksPerHour            \* setHours(0, 0, 0, 0)
endOfDay(day) == (day + 1) * 24 * TicksPerHour - 1    \* setHours(23, 59, 59, 999)

\* v.checkOutTime || new Date()
checkOutOrNow(v, t) == IF "checkOutTime" \in DOMAIN v THEN v.checkOutTime ELSE t

\* the sort key each view derives from its sortBy state
sortKey(component, sortBy) ==
    CASE component = "ParkingHistory" ->
            (CASE sortBy = "charge" -> "charge"
               [] sortBy = "duration" -> "duration"
               [] OTHER -> "checkOutOrZero")
      [] component = "ActiveVehiclesDetails" ->
            (CASE sortBy = "duration" -> "liveDuration"
               [] sortBy = "vehicle" -> "vehicle"
               [] OTHER -> "checkIn")
      [] component = "CheckOutTodayDetails" ->
            (CASE sortBy = "charge" -> "charge"
               [] sortBy = "duration" -> "duration"
               [] OTHER -> "checkOutIfBoth")
      [] component = "CheckInTodayDetails" ->
            (CASE sortBy = "vehicle" -> "vehicle"
               [] OTHER -> "checkIn")

\* mutant: ActiveVehiclesDetails sorts `filtered` itself, without the spread copy
detailsFilteredVehiclesNoCopy(v, t) ==
    LET c0 == aliasOf(v.vehicles)
        query == toLowerCase(v.searchQuery)
        c1 == IF v.searchQuery # EmptyString
              THEN newArray(c0, SelectSeq(c0.cur, LAMBDA r : listMatches(r, query)))
              ELSE c0
        c2 == IF v.vehicleTypeFilter # "all"
              THEN newArray(c1, SelectSeq(c1.cur, LAMBDA r : r.vehicleType = v.vehicleTypeFilter))
              ELSE c1
    IN sortInPlace(c2, sortKey("ActiveVehiclesDetails", v.sortBy), t)

\* ParkingHistory.filteredAndSortedVehicles
historyFilteredAndSortedVehicles(v, t) ==
    LET c0 == spreadCopy(aliasOf(v.vehicles))
        q == toLowerCase(v.searchQuery)
        c1 == IF trim(v.searchQuery) # EmptyString
              THEN newArray(c0, SelectSeq(c0.cur, LAMBDA r : historyMatches(r, q)))
              ELSE c0
        c2 == IF v.vehicleTypeFilter # "all"
              THEN newArray(c1, SelectSeq(c1.cur, LAMBDA r : r.vehicleType = v.vehicleTypeFilter))
              ELSE c1
        c3 == IF v.dateFrom # NoDate
              THEN newArray(c2, SelectSeq(c2.cur,
                       LAMBDA r : checkOutOrNow(r, t) >= startOfDay(v.dateFrom)))
              ELSE c2
        c4 == IF v.dateTo # NoDate
              THEN newArray(c3, SelectSeq(c3.cur,
                       LAMBDA r : checkOutOrNow(r, t) <= endOfDay(v.dateTo)))
              ELSE c3
    IN sortInPlace(c4, sortKey("ParkingHistory", v.sortBy), t)

\* ActiveVehiclesDetails.filteredVehicles: the from date is taken as it is, the to
\* date is moved to the end of its day
detailsFilteredVehicles(v, t) ==
    LET c0 == aliasOf(v.vehicles)
        query == toLowerCase(v.searchQuery)
        c1 == IF v.searchQuery # EmptyString
              THEN newArray(c0, SelectSeq(c0.cur, LAMBDA r : listMatches(r, query)))
              ELSE c0
        c2 == IF v.vehicleTypeFilter # "all"
              THEN newArray(c1, SelectSeq(c1.cur, LAMBDA r : r.vehicleType = v.vehicleTypeFilter))
              ELSE c1
        c3 == IF v.dateFrom # NoDate /\ v.dateTo # NoDate
              THEN newArray(c2, SelectSeq(c2.cur,
                       LAMBDA r : /\ r.checkInTime >= startOfDay(v.dateFrom)
                                  /\ r.checkInTime <= endOfDay(v.dateTo)))
              ELSE IF v.dateFrom # NoDate
              THEN newArray(c2, SelectSeq(c2.cur,
                       LAMBDA r : r.checkInTime >= startOfDay(v.dateFrom)))
              ELSE IF v.dateTo # NoDate
              THEN newArray(c2, SelectSeq(c2.cur,
                       LAMBDA r : r.checkInTime <= endOfDay(v.dateTo)))
              ELSE c2
    IN sortInPlace(spreadCopy(c3), sortKey("ActiveVehiclesDetails", v.sortBy), t)

\* CheckOutTodayDetails.filteredVehicles
checkOutFilteredVehicles(v, t) ==
    LET c0 == aliasOf(v.vehicles)
        query == toLowerCase(v.searchQuery)
        c1 == IF v.searchQuery # EmptyString
              THEN newArray(c0, SelectSeq(c0.cur, LAMBDA r : listMatches(r, query)))
              ELSE c0
        c2 == IF v.vehicleTypeFilter # "all"
              THEN newArray(c1, SelectSeq(c1.cur, LAMBDA r : r.vehicleType = v.vehicleTypeFilter))
              ELSE c1
    IN sortInPlace(spreadCopy(c2), sortKey("CheckOutTodayDetails", v.sortBy), t)

\* CheckInTodayDetails.filteredVehicles
checkInFilteredVehicles(v, t) ==
    LET c0 == aliasOf(v.vehicles)
        query == toLowerCase(v.searchQuery)
        c1 == IF v.searchQuery # EmptyString
              THEN newArray(c0, SelectSeq(c0.cur, LAMBDA r : listMatches(r, query)))
              ELSE c0
        c2 == IF v.vehicleTypeFilter # "all"
              THEN newArray(c1, SelectSeq(c1.cur, LAMBDA r : r.vehicleType = v.vehicleTypeFilter))
              ELSE c1
        c3 == IF v.statusFilter # "all"
              THEN newArray(c2, SelectSeq(c2.cur, LAMBDA r : r.status = v.statusFilter))
              ELSE c2
    IN sortInPlace(spreadCopy(c3), sortKey("CheckInTodayDetails", v.sortBy), t)

\* the useMemo of the view that is open
memo(v, t) ==
    CASE v.component = "ParkingHistory" -> historyFilteredAndSortedVehicles(v, t)
      [] v.component = "ActiveVehiclesDetails" -> detailsFilteredVehicles(v, t)
      [] v.component = "CheckOutTodayDetails" -> checkOutFilteredVehicles(v, t)
      [] v.component = "CheckInTodayDetails" -> checkInFilteredVehicles(v, t)

\* records as the backend returns them; checkOutTime, duration and charge are optional
ViewRecords ==
    { [ _id |-> 1, vehicleNumber |-> <<"M","H","1","2","A","B","1","2","3","4">>,
        vehicleType |-> "Car", ownerName |-> <<"A","s","h","a">>,
        phoneNumber |-> <<"9","8","7","6","5","4","3","2","1","0">>,
        checkInTime |-> 0, status |-> "completed",
        checkOutTime |-> 5 * TicksPerHour, duration |-> 5 * TicksPerHour, charge |-> 10 ],
      [ _id |-> 2, vehicleNumber |-> <<"K","A","0","1","C","1","2","3">>,
        vehicleType |-> "Bike", ownerName |-> <<"R","a","v","i">>,
        phoneNumber |-> <<"7","0","0","0","0","0","0","0","0","1">>,
        checkInTime |-> 5 * TicksPerHour, status |-> "completed",
        checkOutTime |-> 30 * TicksPerHour, duration |-> 25 * TicksPerHour, charge |-> 40 ],
      [ _id |-> 3, vehicleNumber |-> <<"M","H"," ","1","2"," ","A","B"," ","1","2","3","4">>,
        vehicleType |-> "Car", ownerName |-> <<"A","s","h","a">>,
        phoneNumber |-> <<"9","8","7","6","5","4","3","2","1","0">>,
        checkInTime |-> 17 * TicksPerHour, status |-> "active" ] }

\* a Completed record that carries no charge and no duration
UnchargedRecords ==
    { [ _id |-> 4, vehicleNumber |-> <<"D","L","3","C","A","B","1","2","3">>,
        vehicleType |-> "Truck", ownerName |-> <<"R","a","v","i">>,
        phoneNumber |-> <<"7","0","0","0","0","0","0","0","0","1">>,
        checkInTime |-> 1, status |-> "completed", checkOutTime |-> 17 * TicksPerHour ] }

\* the lists a fetch returns: any of the records, each at most once, in any order
FetchedLists ==
    UNION { {s \in [1..n -> ViewRecords] : \A i, j \in 1..n : s[i] = s[j] => i = j} :
              n \in 0..Cardinality(ViewRecords) }

SearchQueries == { EmptyString, <<"m","h">>, <<" ">> }
TypeFilters == {"all", "Car"}
StatusFilters == {"all", "active"}
DateFromFilters == {NoDate, 1}
DateToFilters == {NoDate, 0}
ViewComponents ==
    {"ParkingHistory", "ActiveVehiclesDetails", "CheckOutTodayDetails", "CheckInTodayDetails"}

SortOptions(component) ==
    CASE component = "ParkingHistory" -> {"date", "charge", "duration"}
      [] component = "ActiveVehiclesDetails" -> {"checkin", "duration", "vehicle"}
      [] component = "CheckOutTodayDetails" -> {"time", "charge", "duration"}
      [] component = "CheckInTodayDetails" -> {"time", "vehicle"}

\* the useState initial values of a view
initialView(component) ==
    [ component |-> component, vehicles |-> << >>, fetched |-> FALSE,
      searchQuery |-> EmptyString, vehicleTypeFilter |-> "all", statusFilter |-> "all",
      dateFrom |-> NoDate, dateTo |-> NoDate,
      sortBy |-> CASE component = "ParkingHistory" -> "date"
                   [] component = "ActiveVehiclesDetails" -> "checkin"
                   [] OTHER -> "time",
      shown |-> << >> ]

\* a state update followed by the render that recomputes the memo
render(v) ==
    \E o \in memo(v, now) : view' = [v EXCEPT !.vehicles = o.vehicles, !.shown = o.cur]

openView(component) ==
    /\ view.component = "none"
    /\ view' = initialView(component)
    /\ UNCHANGED <<vehicles, now, formData, pending, last, calc, checkouts, checked,
                   ticket, dash, scanner>>

closeView ==
    /\ view.component # "none"
    /\ view' = [component |-> "none"]
    /\ UNCHANGED <<vehicles, now, formData, pending, last, calc, checkouts, checked,
                   ticket, dash, scanner>>

\* the fetch of the mount effect answers: setVehicles(data)
viewFetched(data) ==
    /\ view.component # "none"
    /\ ~view.fetched
    /\ render([view EXCEPT !.vehicles = data, !.fetched = TRUE])
    /\ UNCHANGED <<vehicles, now, formData, pending, last, calc, checkouts, checked,
                   ticket, dash, scanner>>

setSearchQuery(value) ==
    /\ view.component # "none"
    /\ render([view EXCEPT !.searchQuery = value])
    /\ UNCHANGED <<vehicles, now, formData, pending, last, calc, checkouts, checked,
                   ticket, dash, scanner>>

setVehicleTypeFilter(value) ==
    /\ view.component # "none"
    /\ render([view EXCEPT !.vehicleTypeFilter = value])
    /\ UNCHANGED <<vehicles, now, formData, pending, last, calc, checkouts, checked,
                   ticket, dash, scanner>>

setStatusFilter(value) ==
    /\ view.component = "CheckInTodayDetails"
    /\ render([view EXCEPT !.statusFilter = value])
    /\ UNCHANGED <<vehicles, now, formData, pending, last, calc, checkouts, checked,
                   ticket, dash, scanner>>

setDateRange(from, to) ==
    /\ view.component \in {"ParkingHistory", "ActiveVehiclesDetails"}
    /\ render([view EXCEPT !.dateFrom = from, !.dateTo = to])
    /\ UNCHANGED <<vehicles, now, formData, pending, last, calc, checkouts, checked,
                   ticket, dash, scanner>>

setSortBy(value) ==
    /\ view.component # "none"
    /\ value \in SortOptions(view.component)
    /\ render([view EXCEPT !.sortBy = value])
    /\ UNCHANGED <<vehicles, now, formData, pending, last, calc, checkouts, checked,
                   ticket, dash, scanner>>

AllSortOptions == UNION {SortOptions(component) : component \in ViewComponents}

NextViews ==
    \/ \E component \in ViewComponents : openView(component)
    \/ closeView
    \/ \E data \in FetchedLists : viewFetched(data)
    \/ \E value \in SearchQueries : setSearchQuery(value)
    \/ \E value \in TypeFilters : setVehicleTypeFilter(value)
    \/ \E value \in StatusFilters : setStatusFilter(value)
    \/ \E from \in DateFromFilters, to \in DateToFilters : setDateRange(from, to)
    \/ \E value \in AllSortOptions : setSortBy(value)

SpecViews == Init /\ [][NextViews]_vars

----------------------------------------------------------------------------
(* Parking tickets: the payloads of the QR codes, and what the scanner reads *)

\* Date.prototype.toISOString / toLocaleString('en-IN'): a string for the instant
toISOString(t) == [iso |-> t]
toLocaleString(t) == [locale |-> "en-IN", instant |-> t]

TicketKeys == {"vehicleNumber", "vehicleType", "ownerName", "phoneNumber", "checkInTime", "id"}

\* QRCodePrint.generateQRCode: JSON.stringify({vehicleNumber: ..., ..., id: vehicle.id});
\* a property whose value is undefined is left out of the text
qrData(vehicle) ==
    [ format |-> "json",
      object |-> [k \in TicketKeys \cap DOMAIN vehicle |->
                    IF k = "checkInTime" THEN toISOString(vehicle.checkInTime)
                    ELSE vehicle[k]] ]

\* ActiveVehiclesDetails.generateQRCode: a template string, one "Label: value" per line
detailsQrData(vehicle) ==
    [ format |-> "text",
      lines |-> << <<"Vehicle", vehicle.vehicleNumber>>, <<"Owner", vehicle.ownerName>>,
                   <<"Phone", vehicle.phoneNumber>>, <<"Type", vehicle.vehicleType>>,
                   <<"Check-in", toLocaleString(vehicle.checkInTime)>> >> ]

\* JSON.parse: the object for a JSON text, a SyntaxError for any other text
JSONparse(text) ==
    IF text.format = "json"
    THEN [ok |-> TRUE, data |-> text.object]
    ELSE [ok |-> FALSE]

\* QRScanner.scanQRCode once jsQR has found a code with this payload
scanQRCode(payload) ==
    LET parsed == JSONparse(payload)
    IN IF ~parsed.ok
       THEN [outcome |-> "Invalid QR code"]
       ELSE IF "vehicleNumber" \in DOMAIN parsed.data
               /\ parsed.data.vehicleNumber # EmptyString
       THEN [outcome |-> "scanned", vehicleNumber |-> parsed.data.vehicleNumber]
       ELSE [outcome |-> "ignored"]

\* const checkedInVehicle = { ...formData, id: Date.now().toString(),
\*                            checkInTime: new Date(), status: 'active' }
checkedInVehicle(fd, t) ==
    [ vehicleNumber |-> fd.vehicleNumber,
      vehicleType   |-> fd.vehicleType,
      ownerName     |-> fd.ownerName,
      phoneNumber   |-> fd.phoneNumber,
      id            |-> t,
      checkInTime   |-> t,
      status        |-> "active" ]

\* the QRCodePrint dialog opened for a vehicle
printedTicket(origin, vehicle) ==
    [ generator |-> "QRCodePrint", origin |-> origin, vehicle |-> vehicle,
      payload |-> qrData(vehicle), scan |-> [outcome |-> "none"] ]

\* The continuation of handleSubmit after an ok answer, ticket included. Date.now()
\* is read once in handleCheckin and once more for the ticket: the second reading
\* is t, the same tick or the next.
fetchOkTicket(i, t) ==
    /\ i \in 1..Len(pending)
    /\ t \in {now, now + 1}
    /\ LET p == pending[i]
           ok == handleCheckinReturn(p.vehicles, p.formData)
       IN /\ vehicles' = handleCheckinVehicles(p.vehicles, p.formData, now, vehicles)
          /\ formData' = IF ok THEN BlankForm ELSE formData
          /\ last' = [op |-> "handleCheckin", value |-> ok]
          /\ ticket' = IF ok
                       THEN printedTicket("VehicleCheckin", checkedInVehicle(p.formData, t))
                       ELSE ticket
          /\ now' = IF ok THEN t ELSE now
    /\ pending' = RemoveAt(pending, i)
    /\ UNCHANGED <<calc, checkouts, checked, view, dash, scanner>>

\* ActiveVehicles.handleQRCodePrint(vehicle): QRCodePrint is shown for the list record
printFromList(vehicle) ==
    /\ ticket' = printedTicket("ActiveVehicles", vehicle)
    /\ UNCHANGED <<vehicles, now, formData, pending, last, calc, checkouts, checked,
                   view, dash, scanner>>

\* ActiveVehiclesDetails.handlePrintQR(vehicle)
printFromDetails(vehicle) ==
    /\ ticket' = [ generator |-> "ActiveVehiclesDetails", origin |-> "ActiveVehiclesDetails",
                   vehicle |-> vehicle, payload |-> detailsQrData(vehicle),
                   scan |-> [outcome |-> "none"] ]
    /\ UNCHANGED <<vehicles, now, formData, pending, last, calc, checkouts, checked,
                   view, dash, scanner>>

\* the ticket last generated is held up to the scanner
scanTicket ==
    /\ ticket.generator # "none"
    /\ ticket' = [ticket EXCEPT !.scan = scanQRCode(ticket.payload)]
    /\ UNCHANGED <<vehicles, now, formData, pending, last, calc, checkouts, checked,
                   view, dash, scanner>>

NextTicket ==
    \/ \E scannedNumber \in ScannedPlates, type \in VehicleTypes, name \in TypedNames,
          phone \in TypedPhones : scanForm(scannedNumber, type, name, phone)
    \/ handleSubmitFetch
    \/ \E i \in 1..Len(pending), t \in {now, now + 1} : fetchOkTicket(i, t)
    \/ \E vehicle \in ViewRecords : printFromList(vehicle)
    \/ \E vehicle \in ViewRecords : printFromDetails(vehicle)
    \/ scanTicket
    \/ \E vehicleId \in Ids(vehicles) : handleCheckout(vehicleId)
    \/ \E h \in ClockHours : Advance(h)

SpecTicket == Init /\ [][NextTicket]_vars

----------------------------------------------------------------------------
(* The data views: fetches, loading flag, revenue *)

\* what the completed-today endpoint answers with: Completed records, with or
\* without a charge, each at most once, in any order
CompletedLists ==
    LET records == {v \in ViewRecords \cup UnchargedRecords : v.status = "completed"}
    IN UNION { {q \in [1..n -> records] : \A i, j \in 1..n : q[i] = q[j] => i = j}
               : n \in 0..Cardinality(records) }

\* the other list endpoints: nothing, or the records on file
RecordLists == { << >> } \cup {q \in FetchedLists : Len(q) = Cardinality(ViewRecords)
                                   /\ \A i \in 1..Len(q) : q[i]._id = i}

\* the bodies the total-revenue endpoint answers with
RevenueBodies == { [totalRevenue |-> 0], [totalRevenue |-> 50], [error |-> "Server error"] }

\* what a fetch function can receive as `data`
bodiesOf(name) ==
    IF name = "fetchCompletedToday" THEN CompletedLists
    ELSE IF name = "fetchTotalRevenue" THEN RevenueBodies
    ELSE RecordLists

\* the tab or card that mounts a view; the view shown before is unmounted
navigate(component) ==
    /\ component # dash.component
    /\ dash' = mounted(component)
    /\ UNCHANGED <<vehicles, now, formData, pending, last, calc, checkouts, checked,
                   view, ticket, scanner>>

\* fetch and res.json() fulfil: the rest of the fetch function runs
fetchFulfilled(name, data) ==
    /\ name \in DOMAIN dash.fetches
    /\ dash.fetches[name] = "pending"
    /\ data \in bodiesOf(name)
    /\ dash' =
         IF dash.component # "Dashboard"
         THEN [dash EXCEPT !.fetches[name] = "ok", !.vehicles = data, !.loading = FALSE]
         ELSE CASE name = "fetchToday" ->
                      [dash EXCEPT !.fetches[name] = "ok", !.todayVehicles = data]
                [] name = "fetchActive" ->
                      [dash EXCEPT !.fetches[name] = "ok", !.activeVehicles = data]
                [] name = "fetchCompletedToday" ->
                      [dash EXCEPT !.fetches[name] = "ok", !.completedToday = data,
                                   !.todayRevenue = todayRevenue(data)]
                [] name = "fetchTotalRevenue" ->
                      [dash EXCEPT !.fetches[name] = "ok",
                                   !.totalRevenue = orZero(data, "totalRevenue")]
    /\ UNCHANGED <<vehicles, now, formData, pending, last, calc, checkouts, checked,
                   view, ticket, scanner>>

\* fetch or res.json() rejects. The details views catch it and go on to
\* setLoading(false); Dashboard's fetch functions do not, so the promise loadAll
\* awaits rejects and loadAll ends there.
fetchRejected(name) ==
    /\ name \in DOMAIN dash.fetches
    /\ dash.fetches[name] = "pending"
    /\ dash' =
         IF dash.component # "Dashboard"
         THEN [dash EXCEPT !.fetches[name] = "failed", !.loading = FALSE]
         ELSE [dash EXCEPT !.fetches[name] = "failed",
                           !.loadAll = IF @ = "awaiting" THEN "rejected" ELSE @]
    /\ UNCHANGED <<vehicles, now, formData, pending, last, calc, checkouts, checked,
                   view, ticket, scanner>>

\* Promise.all fulfils when all four have: loadAll resumes with setLoading(false)
loadAllResumes ==
    /\ dash.component = "Dashboard"
    /\ dash.loadAll = "awaiting"
    /\ \A f \in DOMAIN dash.fetches : dash.fetches[f] = "ok"
    /\ dash' = [dash EXCEPT !.loadAll = "returned", !.loading = FALSE]
    /\ UNCHANGED <<vehicles, now, formData, pending, last, calc, checkouts, checked,
                   view, ticket, scanner>>

AllFetches == UNION { fetchesOf(component) : component \in DataViews }

NextLoading ==
    \/ \E component \in DataViews : navigate(component)
    \/ \E name \in AllFetches : \E data \in bodiesOf(name) : fetchFulfilled(name, data)
    \/ \E name \in AllFetches : fetchRejected(name)
    \/ loadAllResumes

SpecLoading == Init /\ [][NextLoading]_vars

----------------------------------------------------------------------------
(* QRScanner: dialog, camera stream, scan interval *)

\* the <video> element is rendered in the open dialog's camera branch
videoMounted(s) == s.isOpen /\ ~s.cameraError /\ ~s.manualEntry

stopScanning(s) ==
    [s EXCEPT !.timers = IF s.ref THEN SubSeq(@, 1, Len(@) - 1) ELSE @,
              !.ref = FALSE,
              !.isScanning = FALSE]

\* stopCamera of a render whose `stream` is closureStream
stopCamera(s, closureStream) ==
    LET t == stopScanning(s)
    IN IF closureStream # NoStream
       THEN [t EXCEPT !.tracks = @ \ {closureStream}, !.stream = NoStream]
       ELSE t

\* handleClose of a render whose `stream` is closureStream
handleClose(s, closureStream) ==
    [stopCamera(s, closureStream) EXCEPT !.isOpen = FALSE, !.cameraError = FALSE,
                                         !.manualEntry = FALSE, !.vehicleNumber = << >>,
                                         !.error = ""]

effectDeps(s) == <<s.isOpen, s.cameraError, s.manualEntry>>

\* The render after a handler, and its effect. When a dependency has changed the
\* cleanup of the previous effect runs (stopCamera of its render), then the effect
\* of this render: startCamera() if the camera branch is shown, and its cleanup is
\* registered. A <video> that is no longer rendered takes its handler with it.
commit(old, new) ==
    IF effectDeps(old) = effectDeps(new)
    THEN new
    ELSE [stopCamera(new, old.cleanup) EXCEPT
              !.cleanup = new.stream,
              !.requests = IF videoMounted(new) THEN Append(@, new.stream) ELSE @,
              !.started = IF videoMounted(new) THEN @ + 1 ELSE @,
              !.onloadedmetadata = IF videoMounted(new) THEN @ ELSE Unset]

\* the getUserMedia calls a run may make
MaxStreams == 2

\* guard of every handler: its render may call getUserMedia only MaxStreams times
withinStreams(new) == new.started <= MaxStreams

scannerStep(new) ==
    /\ withinStreams(commit(scanner, new))
    /\ scanner' = commit(scanner, new)
    /\ UNCHANGED <<vehicles, now, formData, pending, last, calc, checkouts, checked,
                   view, ticket, dash>>

\* the "Scan QR Code" button: setIsOpen(true)
openScanner ==
    /\ ~scanner.isOpen
    /\ scannerStep([scanner EXCEPT !.isOpen = TRUE])

\* getUserMedia fulfils with a new stream: the rest of startCamera's try block
mediaGranted(i) ==
    /\ i \in 1..Len(scanner.requests)
    /\ LET mediaStream == scanner.started - Len(scanner.requests) + 1
           closureStream == scanner.requests[i]
       IN scannerStep([scanner EXCEPT
              !.requests = RemoveAt(@, i),
              !.tracks = @ \cup {mediaStream},
              !.stream = mediaStream,
              !.cameraError = FALSE,
              !.onloadedmetadata = IF videoMounted(scanner) THEN closureStream ELSE @])

\* getUserMedia rejects: startCamera's catch block
mediaDenied(i) ==
    /\ i \in 1..Len(scanner.requests)
    /\ scannerStep([scanner EXCEPT !.requests = RemoveAt(@, i),
                                   !.cameraError = TRUE,
                                   !.toast = "Unable to access camera"])

\* loadedmetadata on the <video>, once for the srcObject it was given:
\* startScanning() of the handler's render, which returns at once if an
\* interval is already registered in scanIntervalRef
onLoadedMetadata ==
    /\ videoMounted(scanner)
    /\ scanner.onloadedmetadata # Unset
    /\ IF scanner.ref
       THEN scannerStep([scanner EXCEPT !.onloadedmetadata = Unset])
       ELSE scannerStep([scanner EXCEPT !.isScanning = TRUE,
                                       !.ref = TRUE,
                                       !.timers = Append(@, scanner.onloadedmetadata),
                                       !.onloadedmetadata = Unset])

\* what jsQR finds in a frame
FramePayloads ==
    { qrData(v) : v \in {r \in ViewRecords : r._id = 1} }
        \cup { detailsQrData(v) : v \in {r \in ViewRecords : r._id = 1} }

\* one firing of an interval whose frame shows a code: scanQRCode, and on a
\* ticket handleQRScanned and handleClose, all of the render that started it
intervalFires(k, payload) ==
    /\ k \in 1..Len(scanner.timers)
    /\ LET closureStream == scanner.timers[k]
           read == scanQRCode(payload)
           fired == [scanner EXCEPT !.firedClosed = @ \/ ~scanner.isOpen]
       IN IF ~videoMounted(scanner)
          THEN scannerStep(fired)
          ELSE IF read.outcome = "scanned"
          THEN scannerStep(
                  [handleClose(stopScanning(fired), closureStream) EXCEPT
                       !.onScan = read.vehicleNumber,
                       !.toast = "QR Code scanned successfully"])
          ELSE IF read.outcome = "Invalid QR code"
          THEN scannerStep([fired EXCEPT !.toast = "Invalid QR code"])
          ELSE scannerStep(fired)

\* <Dialog onOpenChange={handleClose}>: escape, overlay or the close button
dismiss ==
    /\ scanner.isOpen
    /\ scannerStep(handleClose(scanner, scanner.stream))

\* "Enter Manually"
switchToManual ==
    /\ videoMounted(scanner)
    /\ scannerStep([stopCamera(scanner, scanner.stream) EXCEPT !.manualEntry = TRUE])

\* "Use Camera"
switchToCamera ==
    /\ scanner.isOpen /\ ~scanner.cameraError /\ scanner.manualEntry
    /\ scannerStep([scanner EXCEPT !.manualEntry = FALSE, !.vehicleNumber = << >>,
                                   !.error = ""])

\* "Try Camera Again": setCameraError(false)
tryCameraAgain ==
    /\ scanner.isOpen /\ scanner.cameraError
    /\ scannerStep([scanner EXCEPT !.cameraError = FALSE])

\* onChange of either manual input
onChangeManualNumber(value) ==
    /\ scanner.isOpen /\ (scanner.cameraError \/ scanner.manualEntry)
    /\ scannerStep([scanner EXCEPT !.vehicleNumber = toUpperCase(value), !.error = ""])

\* "Search", enabled when vehicleNumber.trim() is not empty
handleManualSubmit ==
    /\ scanner.isOpen /\ (scanner.cameraError \/ scanner.manualEntry)
    /\ trim(scanner.vehicleNumber) # EmptyString
    /\ IF ~scannerValidateVehicleNumber(scanner.vehicleNumber)
       THEN scannerStep([scanner EXCEPT !.error = "Invalid vehicle number format"])
       ELSE scannerStep([handleClose(scanner, scanner.stream) EXCEPT
                             !.onScan = trim(scanner.vehicleNumber),
                             !.toast = "Vehicle number entered"])

ManualNumbers == { <<"m","h","1","2","a","b","1","2","3","4">>, <<"M","H","1","2","3","4">> }

NextScanner ==
    \/ openScanner
    \/ \E i \in 1..MaxStreams : mediaGranted(i)
    \/ \E i \in 1..MaxStreams : mediaDenied(i)
    \/ onLoadedMetadata
    \/ \E k \in 1..MaxStreams, payload \in FramePayloads : intervalFires(k, payload)
    \/ dismiss
    \/ switchToManual
    \/ switchToCamera
    \/ tryCameraAgain
    \/ \E value \in ManualNumbers : onChangeManualNumber(value)
    \/ handleManualSubmit

SpecScanner == Init /\ [][NextScanner]_vars

----------------------------------------------------------------------------
(* Properties *)

\* the plate as the specification compares it: whitespace stripped, upper-cased
normalised(number) == toUpperCase(stripWhitespace(number))

Active(vs) == {i \in 1..Len(vs) : vs[i].status = "active"}
Completed(vs) == {i \in 1..Len(vs) : vs[i].status = "completed"}

\* C1: the collection never holds two Active records whose plates are equal after
\* stripping whitespace and upper-casing.
C1_UniqueActivePlate ==
    \A i, j \in Active(vehicles) :
        i # j => normalised(vehicles[i].vehicleNumber) # normalised(vehicles[j].vehicleNumber)

\* C2: a check-in whose normalised plate equals the normalised plate of a record that
\* is Active returns failure and adds no record. Stated for a handler that sees the
\* current collection, so that only the comparison of the plates is in question.
C2_ActivePlateRejected ==
    [][ \A i \in 1..Len(pending) :
          ( /\ fetchOk(i)
            /\ pending[i].vehicles = vehicles
            /\ \E k \in Active(vehicles) :
                 normalised(vehicles[k].vehicleNumber)
                    = normalised(pending[i].formData.vehicleNumber) )
          => (last'.value = FALSE /\ vehicles' = vehicles) ]_vars

\* what a successful check-out returns to its caller
checkoutSuccessValue == handleCheckoutReturn(<<newVehicle(BlankForm, 0)>>, 0)

\* C3: a check-out on the id of a Completed record returns an outcome that differs
\* from the outcome of a successful check-out, and leaves the collection unchanged.
C3_SecondCheckoutFails ==
    [][ \A vehicleId \in Ids(vehicles) :
          (handleCheckout(vehicleId) /\ targetOf(vehicles, vehicleId) = "completed")
          => (last'.value # checkoutSuccessValue /\ vehicles' = vehicles) ]_vars

\* C4: a check-out on an id no record carries returns an outcome that differs from
\* the outcome of a successful check-out, and leaves the collection unchanged.
C4_UnknownIdFails ==
    [][ (handleCheckout(NoSuchId) /\ targetOf(vehicles, NoSuchId) = "absent")
        => (last'.value # checkoutSuccessValue /\ vehicles' = vehicles) ]_vars

\* C5: once a record with a given id is Completed, the collection holds a Completed
\* record with that id in every later state.
C5_CompletedStaysCompleted ==
    [][ \A i \in Completed(vehicles) :
          \E j \in Completed(vehicles') : vehicles'[j].id = vehicles[i].id ]_vars

\* C6: for every record, checkOutTime is present iff duration is present iff charge
\* is present iff the status is Completed.
C6_AtomicFieldGroup ==
    \A i \in 1..Len(vehicles) :
        LET r == vehicles[i]
            done == r.status = "completed"
        IN /\ ("checkOutTime" \in DOMAIN r) <=> done
           /\ ("duration" \in DOMAIN r) <=> done
           /\ ("charge" \in DOMAIN r) <=> done
           /\ r.status \in {"active", "completed"}

C6_Witness ==
    /\ Active(vehicles) # {}
    /\ \E i \in Completed(vehicles) : vehicles[i].charge = 20

\* the least number of whole days that cover a duration
daysCovering(ticks) ==
    CHOOSE n \in 0..(ticks + 1) :
        /\ n * 24 * TicksPerHour >= ticks
        /\ \A m \in 0..(ticks + 1) : m * 24 * TicksPerHour >= ticks => n <= m

\* C7: calculateCharge(h) is 10 when h <= 12 and 20 * ceil(h / 24) when h > 12;
\* it is 10 at 0 and at 12, 20 just above 12 and at 24, 40 just above 24 and at 48.
C7_ChargeTiers ==
    \A k \in 1..Len(calc) :
        LET h == calc[k].hours
            c == calc[k].charge
        IN /\ h <= 12 * TicksPerHour => c = 10
           /\ h > 12 * TicksPerHour => c = 20 * daysCovering(h)
           /\ h = 0 => c = 10
           /\ h = 12 * TicksPerHour => c = 10
           /\ h = 12 * TicksPerHour + 1 => c = 20
           /\ h = 24 * TicksPerHour => c = 20
           /\ h = 24 * TicksPerHour + 1 => c = 40
           /\ h = 48 * TicksPerHour => c = 40

C7_Witness ==
    /\ Len(calc) = 2
    /\ calc[1] = [hours |-> 12 * TicksPerHour + 1, charge |-> 20]
    /\ calc[2] = [hours |-> 24 * TicksPerHour + 1, charge |-> 40]

\* C8: calculateCharge is non-decreasing: h1 <= h2 implies
\* calculateCharge(h1) <= calculateCharge(h2).
C8_ChargeMonotonic ==
    \A k, l \in 1..Len(calc) :
        calc[k].hours <= calc[l].hours => calc[k].charge <= calc[l].charge

C8_Witness ==
    /\ Len(calc) = 2
    /\ calc[1] = [hours |-> 12 * TicksPerHour, charge |-> 10]
    /\ calc[2] = [hours |-> 12 * TicksPerHour + 1, charge |-> 20]

\* C9: a check-out of an Active record at clock time T sets its checkOutTime to T,
\* its duration to T - checkInTime, its charge to calculateCharge(duration) and its
\* status to Completed; 5 hours cost 10 and 30 hours cost 40.
C9_CheckoutSetsFields ==
    [][ \A vehicleId \in Ids(vehicles) :
          handleCheckout(vehicleId) =>
            \A i \in Active(vehicles) :
              vehicles[i].id = vehicleId =>
                LET r == vehicles'[i]
                IN /\ r.status = "completed"
                   /\ r.checkOutTime = now
                   /\ r.duration = now - vehicles[i].checkInTime
                   /\ r.charge = calculateCharge(r.duration)
                   /\ r.duration = 5 * TicksPerHour => r.charge = 10
                   /\ r.duration = 30 * TicksPerHour => r.charge = 40 ]_vars

C9_Witness ==
    /\ last.op = "handleCheckout"
    /\ \E i \in Completed(vehicles) :
         /\ vehicles[i].checkInTime = 0
         /\ vehicles[i].checkOutTime = 30 * TicksPerHour
         /\ vehicles[i].duration = 30 * TicksPerHour
         /\ vehicles[i].charge = 40

\* C10: a check-in of a plate that the collection holds only in Completed records
\* succeeds and appends an Active record for it; the Completed records stay as they are.
C10_HistoricalReuse ==
    [][ \A i \in 1..Len(pending) :
          LET seen == pending[i].vehicles
              plate == pending[i].formData.vehicleNumber
          IN ( /\ fetchOk(i)
               /\ \E k \in Completed(seen) : seen[k].vehicleNumber = plate
               /\ \A k \in Active(seen) : seen[k].vehicleNumber # plate )
             => /\ last'.value = TRUE
                /\ Len(vehicles') = Len(seen) + 1
                /\ vehicles'[Len(vehicles')].vehicleNumber = plate
                /\ vehicles'[Len(vehicles')].status = "active"
                /\ \A k \in Completed(seen) : vehicles'[k] = seen[k] ]_vars

C10_Witness ==
    /\ last.op = "handleCheckin"
    /\ last.value = TRUE
    /\ Len(vehicles) = 2
    /\ vehicles[1].status = "completed"
    /\ vehicles[2].status = "active"
    /\ vehicles[1].vehicleNumber = vehicles[2].vehicleNumber

\* C11: a successful check-in appends a record that is Active, whose checkInTime is
\* the clock reading and whose id differs from the id of every other record held.
C11_FreshUniqueId ==
    [][ \A i \in 1..Len(pending) :
          (fetchOk(i) /\ last'.value = TRUE) =>
            LET n == Len(vehicles')
            IN /\ vehicles'[n].status = "active"
               /\ vehicles'[n].checkInTime = now
               /\ \A k \in 1..(n - 1) : vehicles'[k].id # vehicles'[n].id ]_vars

\* C12: of two check-ins of one plate that overlap, at most one succeeds: a check-in
\* that did not see the Active record another check-in of the plate has made since
\* it was submitted reports failure.
C12_OverlappingCheckinsExclude ==
    [][ \A i \in 1..Len(pending) :
          LET seen == pending[i].vehicles
              plate == pending[i].formData.vehicleNumber
          IN ( /\ fetchOk(i)
               /\ \A k \in Active(seen) : seen[k].vehicleNumber # plate
               /\ \E k \in Active(vehicles) : vehicles[k].vehicleNumber = plate )
             => last'.value = FALSE ]_vars

\* C13: of two check-outs of one id issued before either is visible, one fixes the
\* record and the other is reported as a failure and changes nothing.
C13_ConcurrentCheckoutsExclude ==
    [][ \A k \in 1..Len(checkouts) :
          LET c == checkouts[k]
          IN ( /\ runCheckout(k)
               /\ targetOf(c.vehicles, c.vehicleId) = "active"
               /\ targetOf(vehicles, c.vehicleId) = "completed" )
             => (last'.value # checkoutSuccessValue /\ vehicles' = vehicles) ]_vars

RejectionMessages ==
    {"Please fill all fields", "Invalid vehicle number format", "Invalid phone number"}

acceptable(fd) ==
    /\ ~formIncomplete(fd)
    /\ platePattern(stripWhitespace(fd.vehicleNumber))
    /\ validatePhoneNumber(fd.phoneNumber)

\* C14: a submission with an empty field, an invalid plate or an invalid phone number
\* ends in a rejection message with no request sent and the records unchanged; the
\* requests in flight (whose answers run the check-in handler) all carry valid forms.
C14_ValidationPrecedesMutation ==
    [][ /\ ( ~acceptable(formData) /\ (handleSubmitRejected \/ handleSubmitFetch) )
           => /\ vehicles' = vehicles
              /\ pending' = pending
              /\ last'.value \in RejectionMessages
        /\ \A i \in 1..Len(pending') : acceptable(pending'[i].formData) ]_vars

C14_Witness ==
    /\ last.op = "handleSubmit"
    /\ last.value = "Invalid phone number"
    /\ Len(vehicles) = 1

PlateCalls == {"validateVehicleNumber", "QRScanner.validateVehicleNumber"}

\* C15: the plate validator accepts a string exactly when the string, with whitespace
\* removed and folded to upper case, is 2 letters, 1-2 digits, 1-2 letters, 3-4 digits.
C15_PlateValidatorFoldsCase ==
    checked.fn \in PlateCalls =>
        (checked.result <=> platePattern(normalised(checked.input)))

TenDigits(s) == Len(s) = 10 /\ \A i \in 1..Len(s) : s[i] \in Digits

\* C16: the phone validator accepts a string exactly when it is 10 digit characters
\* of which the first is 6, 7, 8 or 9; '9876543210' is accepted, '1234567890' is not.
C16_PhoneValidator ==
    checked.fn = "validatePhoneNumber" =>
        /\ checked.result <=> (TenDigits(checked.input) /\ checked.input[1] \in {"6","7","8","9"})
        /\ checked.input = <<"9","8","7","6","5","4","3","2","1","0">> => checked.result
        /\ checked.input = <<"1","2","3","4","5","6","7","8","9","0">> => ~checked.result
        /\ Len(checked.input) \in {9, 11} => ~checked.result
        /\ (\E i \in 1..Len(checked.input) : checked.input[i] \notin Digits) => ~checked.result

C16_Witness ==
    /\ checked.fn = "validatePhoneNumber"
    /\ checked.input = <<"9","8","7","6","5","4","3","2","1","0">>
    /\ checked.result = TRUE

SelectableTypes == {"Bike", "Car", "SUV", "Truck"}

\* C17: every record in the collection has a plate stored upper-case without
\* whitespace that matches the plate pattern, a phone number of 10 digits led by
\* 6-9, one of the four vehicle types and a non-empty owner name.
C17_StoredRecordsNormalised ==
    \A i \in 1..Len(vehicles) :
        /\ vehicles[i].vehicleNumber = normalised(vehicles[i].vehicleNumber)
        /\ platePattern(vehicles[i].vehicleNumber)
        /\ TenDigits(vehicles[i].phoneNumber)
        /\ vehicles[i].phoneNumber[1] \in {"6", "7", "8", "9"}
        /\ vehicles[i].vehicleType \in SelectableTypes
        /\ vehicles[i].ownerName # EmptyString

\* C19: no step removes a record: every id held before a step is held after it.
C19_NoRecordRemoved ==
    [][ \A i \in 1..Len(vehicles) :
          \E j \in 1..Len(vehicles') : vehicles'[j].id = vehicles[i].id ]_vars

\* C18: for every duration ActiveVehiclesDetails' calculateCharge returns what App's
\* returns, and both estimates shown at time T equal the charge a check-out at T fixes.
C18_EstimateEqualsCharge ==
    \A k \in 1..Len(calc) :
        /\ calc[k].detailsCharge = calculateCharge(calc[k].hours)
        /\ calc[k].detailsEstimate = calc[k].charge
        /\ calc[k].estimate = calc[k].charge

C18_Witness ==
    /\ Len(calc) = 1
    /\ calc[1].hours = 12 * TicksPerHour + 1
    /\ calc[1].detailsEstimate = 20
    /\ calc[1].charge = 20

\* C20: a check-out of id X changes at most one record, the one with id X, and of it
\* only checkOutTime, duration, charge and status; every other record is unchanged.
C20_CheckoutFrame ==
    [][ \A X \in Ids(vehicles) \cup {NoSuchId} :
          handleCheckout(X) =>
            /\ Len(vehicles') = Len(vehicles)
            /\ Cardinality({i \in 1..Len(vehicles) : vehicles'[i] # vehicles[i]}) <= 1
            /\ \A i \in 1..Len(vehicles) :
                 /\ vehicles[i].id # X => vehicles'[i] = vehicles[i]
                 /\ vehicles'[i].id = vehicles[i].id
                 /\ vehicles'[i].vehicleNumber = vehicles[i].vehicleNumber
                 /\ vehicles'[i].vehicleType = vehicles[i].vehicleType
                 /\ vehicles'[i].ownerName = vehicles[i].ownerName
                 /\ vehicles'[i].phoneNumber = vehicles[i].phoneNumber
                 /\ vehicles'[i].checkInTime = vehicles[i].checkInTime ]_vars

C22_FilterSortPure ==
    [][ (view.component # "none" /\ view'.component # "none" /\ view.fetched)
          => view'.vehicles = view.vehicles ]_vars

C22_Witness ==
    /\ view.component = "ActiveVehiclesDetails"
    /\ view.sortBy = "vehicle"
    /\ view.searchQuery = EmptyString
    /\ view.vehicleTypeFilter = "all"
    /\ Len(view.vehicles) = 3
    /\ view.shown # view.vehicles

isPermutation(a, b) ==
    /\ Len(a) = Len(b)
    /\ \E p \in Permutations(1..Len(a)) : \A k \in 1..Len(a) : a[k] = b[p[k]]

\* the key the view is sorted by, larger first except for the plate
keyOf(component, sortBy, v) ==
    CASE sortKey(component, sortBy) = "charge" -> orZero(v, "charge")
      [] sortKey(component, sortBy) = "duration" -> orZero(v, "duration")
      [] sortKey(component, sortBy) \in {"checkOutOrZero", "checkOutIfBoth"} ->
            orZero(v, "checkOutTime")
      [] sortKey(component, sortBy) = "liveDuration" -> 0 - v.checkInTime
      [] sortKey(component, sortBy) = "checkIn" -> v.checkInTime
      [] OTHER -> 0

\* C23: a sorted view shows its records in descending order of the chosen key
\* (ascending plate for the plate order); the records that carry the key are in
\* that order among themselves also when other records lack it.
C23_SortedByKey ==
    view.component # "none" =>
        \A k, l \in 1..Len(view.shown) :
            LET a == view.shown[k]
                b == view.shown[l]
                key == sortKey(view.component, view.sortBy)
                field == CASE key = "charge" -> "charge"
                           [] key = "duration" -> "duration"
                           [] key \in {"checkOutOrZero", "checkOutIfBoth"} -> "checkOutTime"
                           [] OTHER -> "checkInTime"
            IN (k < l /\ field \in DOMAIN a /\ field \in DOMAIN b) =>
                  IF key = "vehicle"
                  THEN localeCompare(a.vehicleNumber, b.vehicleNumber) <= 0
                  ELSE keyOf(view.component, view.sortBy, a)
                         >= keyOf(view.component, view.sortBy, b)

\* C24: the payload of every ticket generated is a JSON object that holds the six
\* keys vehicleNumber, vehicleType, ownerName, phoneNumber, checkInTime and id with
\* the values of the record the ticket is for.
C24_TicketPayloadComplete ==
    ticket.generator # "none" =>
        /\ ticket.payload.format = "json"
        /\ TicketKeys \subseteq DOMAIN ticket.payload.object
        /\ \A k \in TicketKeys \ {"checkInTime"} :
              ticket.payload.object[k] = ticket.vehicle[k]
        /\ ticket.payload.object.checkInTime = toISOString(ticket.vehicle.checkInTime)

\* C27: the ticket shown after a successful check-in carries the id and the
\* checkInTime of the record that this check-in appended.
C27_TicketMatchesRecord ==
    [][ \A i \in 1..Len(pending), t \in {now, now + 1} :
          (fetchOkTicket(i, t) /\ last'.value = TRUE) =>
             /\ ticket'.vehicle.id = vehicles'[Len(vehicles')].id
             /\ ticket'.vehicle.checkInTime = vehicles'[Len(vehicles')].checkInTime ]_vars

\* C29: a generated payload read by the scanner makes it report the vehicleNumber
\* of the vehicle the ticket is for, never the invalid-code error.
C29_TicketRoundTrip ==
    (ticket.generator # "none" /\ ticket.scan.outcome # "none") =>
        /\ ticket.scan.outcome = "scanned"
        /\ ticket.scan.vehicleNumber = ticket.vehicle.vehicleNumber

\* C26: every entry of pending is a POST the submission has sent (handleSubmit
\* fetches before it calls onCheckin), so a submission whose POST was answered
\* never ends with the check-in handler reporting failure.
C26_NoPostForFailedCheckin ==
    [][\A i \in 1..Len(pending) : fetchOk(i) => last'.value = TRUE]_vars

\* the charges of the Completed records at the positions S of a list, summed
RECURSIVE sumOfCharges(_, _)
sumOfCharges(list, S) ==
    IF S = {} THEN 0
    ELSE LET i == CHOOSE k \in S : TRUE
         IN (IF "charge" \in DOMAIN list[i] THEN list[i].charge ELSE 0)
            + sumOfCharges(list, S \ {i})

\* C25: the dashboard's revenue figure is the sum of charge over the Completed
\* records of completedToday, a record without a charge counting 0, and is 0
\* for an empty list.
C25_RevenueIsSumOfCharges ==
    dash.component = "Dashboard" =>
        /\ dash.todayRevenue =
               sumOfCharges(dash.completedToday,
                            {i \in 1..Len(dash.completedToday) :
                                 dash.completedToday[i].status = "completed"})
        /\ (dash.completedToday = << >> => dash.todayRevenue = 0)

\* a list of three was summed; its first record has a charge, another has none
C25_Witness ==
    /\ dash.component = "Dashboard"
    /\ dash.fetches["fetchCompletedToday"] = "ok"
    /\ Len(dash.completedToday) = 3
    /\ "charge" \in DOMAIN dash.completedToday[1]
    /\ \E i \in 1..3 : "charge" \notin DOMAIN dash.completedToday[i]
    /\ dash.todayRevenue = 50

\* C30: once every fetch of the mounted view has settled and nothing of its
\* mount effect is left to run, the loading indicator is cleared.
C30_LoadingCleared ==
    ( /\ \A f \in DOMAIN dash.fetches : dash.fetches[f] # "pending"
      /\ (dash.component = "Dashboard" => dash.loadAll # "awaiting") )
        => dash.loading = FALSE

\* C28: while the dialog is closed no scan interval runs and no camera track is
\* live; there is never more than one interval; no scan callback has fired
\* with the dialog closed.
C28_ScannerReleasesCamera ==
    /\ ~scanner.isOpen => (Len(scanner.timers) = 0 /\ scanner.tracks = {})
    /\ Len(scanner.timers) <= 1
    /\ ~scanner.firedClosed

====
